---- MODULE Spec2Model ----
(***************************************************************************)
(* Model of src/src/virtual-multi-entry.plugin.ts: the plugins returned by *)
(* virtualMultiEntryPlugin(entries, pluginOptions) and their hooks config, *)
(* resolveId, load and generateBundle.                                     *)
(*                                                                         *)
(* JavaScript strings are TLA+ strings.  U+0000 cannot be written in a     *)
(* TLA+ string, so NUL is the one-character string that stands for it.     *)
(* `undefined` and `null` are the tagged records Undefined and Null; a     *)
(* string result r of a hook is Str(r).                                    *)
(***************************************************************************)
EXTENDS Integers, Sequences, FiniteSets, TLC

VARIABLES
    call,               \* the `entries` argument of virtualMultiEntryPlugin
    enforce,            \* pluginOptions?.enforce
    libCfg,             \* this.environment.config.build?.lib seen by load
    importMap,          \* Map: base64 of generated source -> entry name
    duplicatedSources,  \* Map: entry name -> first entry with that source
    bundle,             \* the bundle map handed to generateBundle
    emitted,            \* the emitFile calls made so far, in order
    gbDone,             \* plugins whose generateBundle has run
    loaded,             \* the entries load generated source for, in order
    sources,            \* the text load returned for each of them, in order
    phase,              \* "load", "generate" or "config"
    builds,             \* how many builds the pipeline has started
    other,              \* a second call of virtualMultiEntryPlugin, if any
    ret,                \* the last hook call and what it returned
    config,             \* the configuration object given to config
    config0,            \* that object as the caller built it
    applied             \* plugins whose config hook has run, in order

buildVars == <<importMap, duplicatedSources, bundle, emitted, gbDone, loaded,
               sources>>
configVars == <<config, config0, applied>>
vars == <<call, enforce, libCfg, importMap, duplicatedSources, bundle,
          emitted, gbDone, loaded, sources, phase, builds, other, ret,
          config, config0, applied>>

(***************************************************************************)
(* JavaScript values                                                       *)
(***************************************************************************)
Undefined == [t |-> "undefined"]
Null == [t |-> "null"]
Str(s) == [t |-> "string", v |-> s]

NUL == "^"

\* String.prototype.endsWith
EndsWith(s, suffix) ==
    /\ Len(suffix) <= Len(s)
    /\ SubSeq(s, Len(s) - Len(suffix) + 1, Len(s)) = suffix

\* String.prototype.includes
Includes(s, part) ==
    \E i \in 1..(Len(s) - Len(part) + 1) : SubSeq(s, i, i + Len(part) - 1) = part

CharAt(s, i) == SubSeq(s, i, i)

\* Array.prototype.join("\n") of a sequence of strings
RECURSIVE JoinLines(_)
JoinLines(lines) ==
    IF lines = <<>> THEN ""
    ELSE IF Len(lines) = 1 THEN lines[1]
    ELSE lines[1] \o "\n" \o JoinLines(Tail(lines))

(***************************************************************************)
(* Buffer.from(importer).toString('base64')                                *)
(***************************************************************************)
\* the ASCII characters U+0020 .. U+005F and U+0061 .. U+007E, in code order
AsciiLow == " !\"#$%&'()*+,-./0123456789:;<=>?@ABCDEFGHIJKLMNOPQRSTUVWXYZ[\\]^_"
AsciiHigh == "abcdefghijklmnopqrstuvwxyz{|}~"

B64Alphabet == "ABCDEFGHIJKLMNOPQRSTUVWXYZabcdefghijklmnopqrstuvwxyz0123456789+/"

\* the UTF-8 byte of a one-character ASCII string
CharCode(c) ==
    IF c = "\n" THEN 10
    ELSE IF c = NUL THEN 0
    ELSE IF \E i \in 1..Len(AsciiLow) : CharAt(AsciiLow, i) = c
         THEN 31 + (CHOOSE i \in 1..Len(AsciiLow) : CharAt(AsciiLow, i) = c)
         ELSE 96 + (CHOOSE i \in 1..Len(AsciiHigh) : CharAt(AsciiHigh, i) = c)

B64Digit(n) == CharAt(B64Alphabet, n + 1)

RECURSIVE Base64(_)
Base64(s) ==
    IF s = "" THEN ""
    ELSE LET b1 == CharCode(CharAt(s, 1))
             b2 == IF Len(s) >= 2 THEN CharCode(CharAt(s, 2)) ELSE 0
             b3 == IF Len(s) >= 3 THEN CharCode(CharAt(s, 3)) ELSE 0
             d1 == B64Digit(b1 \div 4)
             d2 == B64Digit((b1 % 4) * 16 + b2 \div 16)
             d3 == B64Digit((b2 % 16) * 4 + b3 \div 64)
             d4 == B64Digit(b3 % 64)
         IN  IF Len(s) = 1 THEN d1 \o d2 \o "=="
             ELSE IF Len(s) = 2 THEN d1 \o d2 \o d3 \o "="
             ELSE d1 \o d2 \o d3 \o d4 \o Base64(SubSeq(s, 4, Len(s)))

(***************************************************************************)
(* path.extname and path.basename (node:path, POSIX)                       *)
(***************************************************************************)
\* The scan of extname: i runs from the last character down to 1; st is
\* [startDot, startPart, end, matchedSlash, preDotState], positions 0-based.
RECURSIVE ExtScan(_, _, _)
ExtScan(path, i, st) ==
    IF i < 1 THEN st
    ELSE LET c == CharAt(path, i)
             pos == i - 1
         IN  IF c = "/"
             THEN IF ~st.matchedSlash
                  THEN [st EXCEPT !.startPart = pos + 1]
                  ELSE ExtScan(path, i - 1, st)
             ELSE LET s1 == IF st.end = -1
                            THEN [st EXCEPT !.matchedSlash = FALSE, !.end = pos + 1]
                            ELSE st
                      s2 == IF c = "."
                            THEN IF s1.startDot = -1
                                 THEN [s1 EXCEPT !.startDot = pos]
                                 ELSE IF s1.preDotState # 1
                                      THEN [s1 EXCEPT !.preDotState = 1]
                                      ELSE s1
                            ELSE IF s1.startDot # -1
                                 THEN [s1 EXCEPT !.preDotState = -1]
                                 ELSE s1
                  IN  ExtScan(path, i - 1, s2)

extname(path) ==
    LET st == ExtScan(path, Len(path),
                      [startDot |-> -1, startPart |-> 0, end |-> -1,
                       matchedSlash |-> TRUE, preDotState |-> 0])
    IN  IF \/ st.startDot = -1
           \/ st.end = -1
           \/ st.preDotState = 0
           \/ (st.preDotState = 1 /\ st.startDot = st.end - 1
                                  /\ st.startDot = st.startPart + 1)
        THEN ""
        ELSE SubSeq(path, st.startDot + 1, st.end)

\* The scan of basename without a suffix; st is [start, end, matchedSlash].
RECURSIVE BaseScan(_, _, _)
BaseScan(path, i, st) ==
    IF i < 1 THEN st
    ELSE IF CharAt(path, i) = "/"
         THEN IF ~st.matchedSlash
              THEN [st EXCEPT !.start = i]
              ELSE BaseScan(path, i - 1, st)
         ELSE IF st.end = -1
              THEN BaseScan(path, i - 1, [st EXCEPT !.matchedSlash = FALSE, !.end = i])
              ELSE BaseScan(path, i - 1, st)

\* The scan of basename with a suffix; st is
\* [start, end, matchedSlash, extIdx, firstNonSlashEnd].
RECURSIVE BaseSuffixScan(_, _, _, _)
BaseSuffixScan(path, suffix, i, st) ==
    IF i < 1 THEN st
    ELSE LET c == CharAt(path, i)
             pos == i - 1
         IN  IF c = "/"
             THEN IF ~st.matchedSlash
                  THEN [st EXCEPT !.start = pos + 1]
                  ELSE BaseSuffixScan(path, suffix, i - 1, st)
             ELSE LET s1 == IF st.firstNonSlashEnd = -1
                            THEN [st EXCEPT !.matchedSlash = FALSE,
                                            !.firstNonSlashEnd = pos + 1]
                            ELSE st
                      s2 == IF s1.extIdx >= 0
                            THEN IF c = CharAt(suffix, s1.extIdx + 1)
                                 THEN IF s1.extIdx - 1 = -1
                                      THEN [s1 EXCEPT !.extIdx = -1, !.end = pos]
                                      ELSE [s1 EXCEPT !.extIdx = s1.extIdx - 1]
                                 ELSE [s1 EXCEPT !.extIdx = -1,
                                                 !.end = s1.firstNonSlashEnd]
                            ELSE s1
                  IN  BaseSuffixScan(path, suffix, i - 1, s2)

basename(path, suffix) ==
    IF Len(suffix) > 0 /\ Len(suffix) <= Len(path)
    THEN IF suffix = path THEN ""
         ELSE LET st == BaseSuffixScan(path, suffix, Len(path),
                            [start |-> 0, end |-> -1, matchedSlash |-> TRUE,
                             extIdx |-> Len(suffix) - 1, firstNonSlashEnd |-> -1])
                  end == IF st.start = st.end THEN st.firstNonSlashEnd
                         ELSE IF st.end = -1 THEN Len(path)
                         ELSE st.end
              IN  SubSeq(path, st.start + 1, end)
    ELSE LET st == BaseScan(path, Len(path),
                            [start |-> 0, end |-> -1, matchedSlash |-> TRUE])
         IN  IF st.end = -1 THEN "" ELSE SubSeq(path, st.start + 1, st.end)

\* entryName.replace(/[^a-zA-Z0-9_]/g, '_')
WordChars == "abcdefghijklmnopqrstuvwxyzABCDEFGHIJKLMNOPQRSTUVWXYZ0123456789_"

IsWordChar(c) == \E i \in 1..Len(WordChars) : CharAt(WordChars, i) = c

\* Sanitize that lets a dash through
RECURSIVE Sanitize_KeepDash(_)
Sanitize_KeepDash(s) ==
    IF s = "" THEN ""
    ELSE (IF IsWordChar(CharAt(s, 1)) \/ CharAt(s, 1) = "-" THEN CharAt(s, 1) ELSE "_")
         \o Sanitize_KeepDash(SubSeq(s, 2, Len(s)))

\* line 207: .replace(/[^a-zA-Z0-9_]/g, '_')
RECURSIVE Sanitize(_)
Sanitize(s) ==
    IF s = "" THEN ""
    ELSE (IF IsWordChar(CharAt(s, 1)) THEN CharAt(s, 1) ELSE "_")
         \o Sanitize(SubSeq(s, 2, Len(s)))

(***************************************************************************)
(* virtualMultiEntryPlugin(entries, pluginOptions)                         *)
(***************************************************************************)
\* An entry of the mapping form; type is "app", "lib" or "" (not given).
Entry(name, files, type) == [name |-> name, files |-> files, type |-> type]

\* The `entries` argument: the mapping form (keys in insertion order) or
\* the single-object form {name, files, type: 'lib'}.
MapCall(es) == [form |-> "map", entries |-> es]
LibCall(name, files) == [form |-> "lib", name |-> name, files |-> files]

buildFileName(name, isCssOnly) == name \o "." \o (IF isCssOnly THEN "css" ELSE "js")

wrapInVirtualEntry(entry) == "virtual:" \o entry

isLibEntry(entries) == entries.form = "lib"

\* processedEntries without the wrapping of the single-object form: the
\* fields of that object taken for entries
processedEntries_Unwrapped(entries) ==
    IF isLibEntry(entries)
    THEN <<Entry("name", <<>>, ""), Entry("files", <<>>, ""), Entry("type", <<>>, "")>>
    ELSE entries.entries

\* processedEntries, as the sequence Object.entries(processedEntries)
processedEntries(entries) ==
    IF isLibEntry(entries)
    THEN <<Entry(entries.name, entries.files, "lib")>>
    ELSE entries.entries

\* Object.keys(entries)
ObjectKeys(entries) ==
    IF isLibEntry(entries)
    THEN <<"name", "files", "type">>
    ELSE [i \in 1..Len(entries.entries) |-> entries.entries[i].name]

\* lines 65-75: the array the call returns, one plugin for each processed
\* entry; `entry` is the name the plugin's hooks close over
virtualMultiEntryPlugin(entries) ==
    [i \in 1..Len(processedEntries(entries)) |->
        [name |-> "virtual-multi-entry-plugin", enforce |-> "pre",
         entry |-> processedEntries(entries)[i].name]]

\* the plugins of a call are numbered as the entries they were made from
Plugins == DOMAIN virtualMultiEntryPlugin(call)
options(p) == processedEntries(call)[p]

isCssOnly(opts) == \A i \in 1..Len(opts.files) : EndsWith(opts.files[i], ".css")
virtualEntryId(opts) == wrapInVirtualEntry(opts.name)
virtualResolvedEntryId(opts) == NUL \o virtualEntryId(opts)

\* JavaScript truthiness: objects, arrays, functions and non-empty strings
Truthy(v) ==
    \/ v.t \in {"object", "array", "function"}
    \/ v.t = "string" /\ v.v # ""

(***************************************************************************)
(* resolveId(id)                                                           *)
(***************************************************************************)
\* resolveId matching every id that starts with the virtual id
resolveId_Prefix(opts, id) ==
    IF Len(id) >= Len(virtualEntryId(opts))
       /\ SubSeq(id, 1, Len(virtualEntryId(opts))) = virtualEntryId(opts)
    THEN Str(virtualResolvedEntryId(opts))
    ELSE Null

\* resolveId matching by suffix for every kind of entry
resolveId_SuffixForAll(opts, id) ==
    IF EndsWith(id, virtualEntryId(opts))
    THEN Str(virtualResolvedEntryId(opts))
    ELSE Null

\* resolveId matching the virtual id anywhere in the requested id
resolveId_Includes(opts, id) ==
    IF opts.type = "lib" /\ Includes(id, virtualEntryId(opts))
    THEN Str(virtualResolvedEntryId(opts))
    ELSE IF virtualEntryId(opts) = id
    THEN Str(virtualResolvedEntryId(opts))
    ELSE Null

resolveId(opts, id) ==
    IF opts.type = "lib" /\ EndsWith(id, virtualEntryId(opts))
    THEN Str(virtualResolvedEntryId(opts))
    ELSE IF virtualEntryId(opts) = id
    THEN Str(virtualResolvedEntryId(opts))
    ELSE Null

(***************************************************************************)
(* load(id)                                                                *)
(***************************************************************************)
\* build.lib of the resolved configuration: absent, false, a string, or an
\* object whose name is a string or absent
LibAbsent == [t |-> "undefined"]
LibFalse == [t |-> "boolean", v |-> FALSE]
LibString(s) == [t |-> "string", v |-> s]
LibObject(name) == [t |-> "object", name |-> name]

libName(lib) ==
    IF lib.t = "string" THEN Str(lib.v)
    ELSE IF lib.t = "object" THEN lib.name
    ELSE Undefined

\* libFooter without the test of libName
libFooter_Unconditional(opts, lib) ==
    IF opts.type = "lib"
    THEN "\nexport default "
           \o (IF libName(lib).t = "string" THEN libName(lib).v ELSE "undefined")
           \o ";"
    ELSE ""

\* libFooter without the test of the entry's type
libFooter_AnyType(opts, lib) ==
    IF Truthy(libName(lib))
    THEN "\nexport default " \o libName(lib).v \o ";"
    ELSE ""

libFooter(opts, lib) ==
    IF opts.type = "lib" /\ Truthy(libName(lib))
    THEN "\nexport default " \o libName(lib).v \o ";"
    ELSE ""

\* a header line that does not carry the entry name
header_Anonymous(opts) == "// Virtual multi-entry plugin\n"

\* line 203
header(opts) == "// Virtual multi-entry plugin for " \o opts.name \o "\n"

\* the statement generated for one file
FileStatement(opts, file) ==
    LET entryName == Sanitize(basename(file, extname(file)))
    IN  IF opts.type = "lib"
        THEN "export * as " \o entryName \o " from \"" \o file \o "\";"
        ELSE "import \"" \o file \o "\";"

importer(opts, lib) ==
    header(opts)
      \o JoinLines([i \in 1..Len(opts.files) |-> FileStatement(opts, opts.files[i])])
      \o libFooter(opts, lib)

\* Map.prototype.get
MapGet(m, k) == IF k \in DOMAIN m THEN Str(m[k]) ELSE Undefined
\* Map.prototype.set
MapSet(m, k, v) == [x \in DOMAIN m \cup {k} |-> IF x = k THEN v ELSE m[x]]

EmptyMap == [x \in {} |-> ""]

\* the record of lines 222-229: <<importMap, duplicatedSources>> after load
RecordSource(opts, text, imap, dups) ==
    LET key == Base64(text)
        existingImport == MapGet(imap, key)
    IN  IF Truthy(existingImport)
        THEN <<imap, MapSet(dups, opts.name, existingImport.v)>>
        ELSE <<MapSet(imap, key, opts.name), dups>>

\* load that returns an empty module once the fingerprint map holds the
\* source it generates
loadResult_EmptyWhenKnown(opts, id, lib) ==
    IF id = virtualResolvedEntryId(opts)
    THEN IF Base64(importer(opts, lib)) \in DOMAIN importMap
         THEN Str("") ELSE Str(importer(opts, lib))
    ELSE Null

\* load that takes every id ending with the virtual id for its own
loadResult_Suffix(opts, id, lib) ==
    IF EndsWith(id, virtualEntryId(opts)) THEN Str(importer(opts, lib)) ELSE Null

\* lines 187, 233 and 235: what load returns
loadResult(opts, id, lib) ==
    IF id = virtualResolvedEntryId(opts) THEN Str(importer(opts, lib)) ELSE Null

(***************************************************************************)
(* generateBundle(_, bundle)                                               *)
(***************************************************************************)
\* bundle descriptors
Asset(source) == [type |-> "asset", source |-> source]
Chunk(code) == [type |-> "chunk", code |-> code]

BundleGet(b, fileName) == IF fileName \in DOMAIN b THEN b[fileName] ELSE Undefined

\* lines 251-263: the keys of `entries` whose file is not in the bundle
missingEntries(entries, css, b) ==
    SelectSeq([i \in 1..Len(ObjectKeys(entries)) |->
                  [entry |-> ObjectKeys(entries)[i],
                   fileName |-> buildFileName(ObjectKeys(entries)[i], css)]],
              LAMBDA e : e.fileName \notin DOMAIN b)

\* lines 265-288: the emitFile calls made for a sequence of missing entries
RECURSIVE EmitLoop(_, _, _, _)
EmitLoop(missing, css, dups, b) ==
    IF missing = <<>> THEN <<>>
    ELSE LET entry == Head(missing)
             resolvedSource == MapGet(dups, entry.entry)
             original == IF Truthy(resolvedSource)
                         THEN BundleGet(b, buildFileName(resolvedSource.v, css))
                         ELSE Undefined
             rest == EmitLoop(Tail(missing), css, dups, b)
         IN  IF ~Truthy(resolvedSource) THEN rest
             ELSE IF original = Undefined THEN rest
             ELSE <<[type |-> original.type,
                     fileName |-> entry.fileName,
                     name |-> entry.entry,
                     id |-> entry.entry,
                     source |-> IF original.type = "asset"
                                THEN original.source ELSE original.code]>>
                  \o rest

\* generateBundle without the early return of lines 246-248
generateBundle_Unguarded(entries, opts, enf, dups, b) ==
    EmitLoop(missingEntries(entries, isCssOnly(opts), b), isCssOnly(opts), dups, b)

\* every emitFile call of one run of generateBundle
generateBundle(entries, opts, enf, dups, b) ==
    IF ~enf \/ ~isCssOnly(opts) THEN <<>>
    ELSE EmitLoop(missingEntries(entries, isCssOnly(opts), b),
                  isCssOnly(opts), dups, b)

\* generateBundle that writes what it emits into the bundle map itself
RECURSIVE bundleAfter_Written(_, _)
bundleAfter_Written(b, files) ==
    IF files = <<>> THEN b
    ELSE bundleAfter_Written(
             [f \in DOMAIN b \cup {Head(files).fileName} |->
                 IF f = Head(files).fileName THEN Asset(Head(files).source) ELSE b[f]],
             Tail(files))

\* the bundle map after a run of generateBundle that made the emitFile calls
\* `files`: the hook only reads the map (lines 255 and 272)
bundleAfter(b, files) == b

(***************************************************************************)
(* config(config)                                                          *)
(*                                                                         *)
(* An object is a record tagged t |-> "object", an absent field is         *)
(* Undefined.  A function value is a record tagged t |-> "function": the   *)
(* caller's own naming function, or a closure the plugin installed, which  *)
(* holds what it captured.                                                 *)
(***************************************************************************)
IsObject(v) == v.t = "object"
IsFunction(v) == v.t = "function"

BuildObj(outDir, lib, rollupOptions) ==
    [t |-> "object", outDir |-> outDir, lib |-> lib, rollupOptions |-> rollupOptions]
RollupObj(external, input, output) ==
    [t |-> "object", external |-> external, input |-> input, output |-> output]
OutputObj(format, entryFileNames, assetFileNames) ==
    [t |-> "object", format |-> format, entryFileNames |-> entryFileNames,
     assetFileNames |-> assetFileNames]
OutputArray(items) == [t |-> "array", items |-> items]
InputObj(map) == [t |-> "object", map |-> map]
\* an array of input files; props are the named properties set on it
InputArray(items, props) == [t |-> "array", items |-> items, props |-> props]
LibOptions(entry, name, fileName) ==
    [t |-> "object", entry |-> entry, name |-> name, fileName |-> fileName]

\* a naming function the caller wrote
UserFunction == [t |-> "function", f |-> "user"]
UserNaming(info) == "user/" \o info.name

\* the closure of line 112 comparing with the unresolved virtual id
EntryFileNamesFn_Unresolved(opts, oldEntryFileNames) ==
    [t |-> "function", f |-> "entryFileNames", name |-> opts.name,
     virtualResolvedEntryId |-> virtualEntryId(opts),
     old |-> oldEntryFileNames]

\* line 112: the closure installed as output.entryFileNames
EntryFileNamesFn(opts, oldEntryFileNames) ==
    [t |-> "function", f |-> "entryFileNames", name |-> opts.name,
     virtualResolvedEntryId |-> virtualResolvedEntryId(opts),
     old |-> oldEntryFileNames]

\* line 132: the closure installed as output.assetFileNames
AssetFileNamesFn(opts, oldAssetsFilename) ==
    [t |-> "function", f |-> "assetFileNames", name |-> opts.name,
     virtualEntryId |-> virtualEntryId(opts), isCssOnly |-> isCssOnly(opts),
     old |-> oldAssetsFilename]

\* a call of a naming function value: lines 112-119 and 132-141
RECURSIVE CallNaming(_, _)
CallNaming(fn, info) ==
    IF fn.f = "user" THEN UserNaming(info)
    ELSE IF fn.f = "entryFileNames"
    THEN IF info.facadeModuleId = Str(fn.virtualResolvedEntryId)
         THEN fn.name \o ".js"
         ELSE IF IsFunction(fn.old) THEN CallNaming(fn.old, info)
         ELSE IF fn.old.t = "string" /\ Truthy(fn.old) THEN fn.old.v
         ELSE "[name].[hash].chunk.js"
    ELSE IF /\ fn.isCssOnly
            /\ Len(info.originalFileNames) > 0
            /\ info.originalFileNames[1] = fn.virtualEntryId
            /\ info.source # ""
         THEN fn.name \o ".css"
         ELSE IF IsFunction(fn.old) THEN CallNaming(fn.old, info)
         ELSE IF fn.old.t = "string" /\ Truthy(fn.old) THEN fn.old.v
         ELSE "[name].[extname]"

\* lines 82-91: the configuration after the first statement of config
EnsureSections(cfg) ==
    IF \/ ~IsObject(cfg.build)
       \/ ~IsObject(cfg.build.rollupOptions)
       \/ ~Truthy(cfg.build.rollupOptions.input)
    THEN LET oldBuild == IF IsObject(cfg.build) THEN cfg.build
                         ELSE BuildObj(Undefined, Undefined, Undefined)
             oldRollup == IF IsObject(oldBuild.rollupOptions) THEN oldBuild.rollupOptions
                          ELSE RollupObj(Undefined, Undefined, Undefined)
         IN  [cfg EXCEPT !.build =
                 [oldBuild EXCEPT !.rollupOptions =
                     [oldRollup EXCEPT !.input = InputObj(EmptyMap),
                                       !.output = OutputObj(Undefined, Undefined, Undefined)]]]
    ELSE cfg

\* SetLib without the spread of the library section it replaces
SetLib_Fresh(lib, opts) ==
    LibOptions(Str(virtualEntryId(opts)), Str(opts.name), Undefined)

\* lines 98-102: build.lib = {...build.lib, entry: virtualEntryId, name: name}
SetLib(lib, opts) ==
    [(IF IsObject(lib) THEN lib ELSE LibOptions(Undefined, Undefined, Undefined))
        EXCEPT !.entry = Str(virtualEntryId(opts)), !.name = Str(opts.name)]

\* AddInput starting from an empty mapping
AddInput_Replace(input, opts) ==
    InputObj(MapSet(EmptyMap, opts.name, virtualEntryId(opts)))

\* the own enumerable properties an object spread copies: the keys of a
\* mapping, the indices and named properties of an array, the indices of
\* the characters of a string, nothing of undefined
SpreadOf(v) ==
    IF IsObject(v) THEN v.map
    ELSE IF v.t = "array"
    THEN [k \in {ToString(i - 1) : i \in 1..Len(v.items)} \cup DOMAIN v.props |->
             IF k \in DOMAIN v.props THEN v.props[k]
             ELSE v.items[CHOOSE i \in 1..Len(v.items) : ToString(i - 1) = k]]
    ELSE IF v.t = "string"
    THEN [k \in {ToString(i - 1) : i \in 1..Len(v.v)} |->
             CharAt(v.v, CHOOSE i \in 1..Len(v.v) : ToString(i - 1) = k)]
    ELSE EmptyMap

\* lines 104-107: the input mapping with this entry's key
AddInput(input, opts) ==
    InputObj(MapSet(SpreadOf(input), opts.name, virtualEntryId(opts)))

\* lines 124-125: rollupOptions.input after input[name] = virtualEntryId,
\* when the assignment does not throw
AssignInput(input, opts) ==
    IF input.t = "array"
    THEN [input EXCEPT !.props = MapSet(input.props, opts.name, virtualEntryId(opts))]
    ELSE AddInput(input, opts)

\* line 125 in module code, which is strict: setting a property on a string
\* primitive throws a TypeError
configThrows(opts, cfg) ==
    /\ opts.type # "lib"
    /\ EnsureSections(cfg).build.rollupOptions.input.t = "string"

\* lines 94 and 109-120: rollupOptions.output after the Library branch;
\* the object of `rollupOptions.output ?? {}` is written only when it is
\* the one the configuration holds
WrapEntryFileNames(output, opts) ==
    IF IsObject(output)
    THEN [output EXCEPT !.entryFileNames = EntryFileNamesFn(opts, output.entryFileNames)]
    ELSE output

\* lines 94 and 129-142: rollupOptions.output after the Application branch
WrapAssetFileNames(output, opts) ==
    IF IsObject(output)
    THEN [output EXCEPT !.assetFileNames = AssetFileNamesFn(opts, output.assetFileNames)]
    ELSE output

\* lines 81-146
configHook(opts, cfg) ==
    LET c1 == EnsureSections(cfg)
        rollupOptions == c1.build.rollupOptions
    IN  IF opts.type = "lib"
        THEN [c1 EXCEPT !.build.lib = SetLib(c1.build.lib, opts),
                        !.build.rollupOptions.input = AddInput(rollupOptions.input, opts),
                        !.build.rollupOptions.output =
                            WrapEntryFileNames(rollupOptions.output, opts)]
        ELSE [c1 EXCEPT !.build.rollupOptions.input = AssignInput(rollupOptions.input, opts),
                        !.build.rollupOptions.output =
                            WrapAssetFileNames(rollupOptions.output, opts)]

(***************************************************************************)
(* The inputs of the model                                                 *)
(***************************************************************************)
\* how many times load generates source in one build
MaxLoads == 3

\* entry names that continue the header of entry "a", and of the entry with
\* the empty name, with a statement
NameWithLineBreak == "a\nimport \"x.css\";"
LineBreakName == "\nimport \"x.css\";"

Calls ==
    { MapCall(<<Entry("a", <<"x.css">>, "app"), Entry("b", <<"x.css">>, "app")>>),
      MapCall(<<Entry("a", <<"x.css", "y.css">>, "app"),
                Entry(NameWithLineBreak, <<"y.css">>, "app")>>),
      MapCall(<<Entry("", <<"x.css", "y.css">>, "app"),
                Entry(LineBreakName, <<"y.css">>, "app")>>),
      MapCall(<<Entry("m", <<"x.css", "z.js">>, "app"), Entry("n", <<>>, "")>>),
      MapCall(<<Entry("k", <<"d/a-b.css">>, "lib"), Entry("s", <<"x.css">>, "app")>>),
      MapCall(<<Entry("a", <<"x.css", "y.js">>, "app"),
                Entry(NameWithLineBreak, <<"y.js">>, "app")>>),
      MapCall(<<Entry("s", <<"d.css">>, "lib"), Entry("p/virtual:s", <<"x.css">>, "app")>>),
      LibCall("lib", <<"./d/a-b.js", "a_b.ts", "f@#.v2.js">>),
      LibCall("e", <<>>),
      LibCall("c", <<"t.css">>) }

LibConfigs ==
    { LibAbsent, LibFalse, LibString("L"), LibString(""),
      LibObject(Str("L")), LibObject(Str("")), LibObject(Undefined) }

\* the ids the pipeline asks a plugin about: for every entry its virtual id,
\* its resolved id, and ids that end with, start with or contain the virtual id
IdsOf(name) ==
    { wrapInVirtualEntry(name),
      NUL \o wrapInVirtualEntry(name),
      "/r/" \o wrapInVirtualEntry(name),
      wrapInVirtualEntry(name) \o ".js",
      "x/" \o wrapInVirtualEntry(name) \o "/y" }

IdPool ==
    UNION { IdsOf(processedEntries(call)[i].name) : i \in Plugins } \cup {"other-id"}

Descriptors == { Asset("body{}"), Asset(""), Chunk("x()") }

\* the bundle maps the pipeline may hand over: any of the files named after
\* a key of `entries` as the plugins of the call name them, each with any
\* descriptor
BundleFiles ==
    { buildFileName(ObjectKeys(call)[i], isCssOnly(options(p))) :
          i \in 1..Len(ObjectKeys(call)), p \in Plugins }

Bundles == UNION { [fs -> Descriptors] : fs \in SUBSET BundleFiles }

NoCall == [hook |-> "none"]

\* no second call was made
NoOther == [made |-> FALSE]

(***************************************************************************)
(* One build: the hooks in the order the pipeline calls them               *)
(***************************************************************************)
Init ==
    /\ call \in Calls
    /\ enforce \in BOOLEAN
    /\ libCfg \in LibConfigs
    /\ importMap = EmptyMap
    /\ duplicatedSources = EmptyMap
    /\ bundle = EmptyMap
    /\ emitted = <<>>
    /\ gbDone = {}
    /\ loaded = <<>>
    /\ sources = <<>>
    /\ phase = "load"
    /\ builds = 1
    /\ other = NoOther
    /\ ret = NoCall
    /\ config = Undefined
    /\ config0 = Undefined
    /\ applied = <<>>

ResolveId(p, id) ==
    /\ phase = "load"
    /\ ret = NoCall
    /\ ret' = [hook |-> "resolveId", p |-> p, id |-> id,
               value |-> resolveId(options(p), id)]
    /\ UNCHANGED <<call, enforce, libCfg, builds, other, phase, buildVars, configVars>>

Load(p, id) ==
    /\ phase = "load"
    /\ ret = NoCall
    /\ Len(loaded) < MaxLoads
    /\ LET value == loadResult(options(p), id, libCfg)
           rec == RecordSource(options(p), value.v, importMap, duplicatedSources)
       IN  /\ ret' = [hook |-> "load", p |-> p, id |-> id, value |-> value]
           /\ IF value = Null
              THEN UNCHANGED <<importMap, duplicatedSources, loaded, sources>>
              ELSE /\ importMap' = rec[1]
                   /\ duplicatedSources' = rec[2]
                   /\ loaded' = Append(loaded, options(p).name)
                   /\ sources' = Append(sources, value.v)
    /\ UNCHANGED <<call, enforce, libCfg, builds, other, phase, bundle, emitted, gbDone, configVars>>

\* the pipeline finishes the bundle map
Bundled(b) ==
    /\ phase = "load"
    /\ ret = NoCall
    /\ phase' = "generate"
    /\ bundle' = b
    /\ UNCHANGED <<ret, call, enforce, libCfg, builds, other, importMap, duplicatedSources,
                   emitted, gbDone, loaded, sources, configVars>>

\* an emitFile call, with the plugin that made it
EmitBy(p, files) == [i \in 1..Len(files) |-> [by |-> p, file |-> files[i]]]

GenerateBundle(p) ==
    /\ phase = "generate"
    /\ ret = NoCall
    /\ p \notin gbDone
    /\ LET files == generateBundle(call, options(p), enforce, duplicatedSources, bundle)
       IN  /\ emitted' = emitted \o EmitBy(p, files)
           /\ bundle' = bundleAfter(bundle, files)
    /\ gbDone' = gbDone \cup {p}
    /\ ret' = [hook |-> "generateBundle", p |-> p, id |-> "", value |-> Undefined]
    /\ UNCHANGED <<call, enforce, libCfg, builds, other, phase, importMap,
                   duplicatedSources, loaded, sources, configVars>>

\* the pipeline takes the result of the hook it called
Return ==
    /\ ret # NoCall
    /\ ret' = NoCall
    /\ UNCHANGED <<call, enforce, libCfg, builds, other, phase, buildVars, configVars>>

Next ==
    \/ Return
    \/ \E p \in Plugins, id \in IdPool : ResolveId(p, id)
    \/ \E p \in Plugins, id \in IdPool : Load(p, id)
    \/ \E b \in Bundles : Bundled(b)
    \/ \E p \in Plugins : GenerateBundle(p)

Spec == Init /\ [][Next]_vars

(***************************************************************************)
(* Rebuilds: the pipeline runs another build with the plugin objects of    *)
(* the same call, as a watching build does; the two Maps of lines 52-53    *)
(* belong to the call and no hook clears them                              *)
(***************************************************************************)
\* how many builds the pipeline runs with the plugins of one call
MaxBuilds == 2

\* the pipeline starts the next build after generateBundle ran for every
\* plugin
Rebuild ==
    /\ phase = "generate"
    /\ ret = NoCall
    /\ gbDone = Plugins
    /\ builds < MaxBuilds
    /\ builds' = builds + 1
    /\ phase' = "load"
    /\ bundle' = EmptyMap
    /\ emitted' = <<>>
    /\ gbDone' = {}
    /\ loaded' = <<>>
    /\ sources' = <<>>
    /\ UNCHANGED <<call, enforce, libCfg, other, ret, importMap, duplicatedSources,
                   configVars>>

InitRebuild == Init /\ enforce /\ libCfg = LibAbsent

NextRebuild == Next \/ Rebuild

SpecRebuild == InitRebuild /\ [][NextRebuild]_vars

(***************************************************************************)
(* Two calls: virtualMultiEntryPlugin is called a second time, and the     *)
(* pipeline calls the load hooks of the plugins of both calls in any order *)
(***************************************************************************)
\* how many times load generates source on the plugins of the second call
MaxOtherLoads == 2

\* lines 52-53: the two Maps are locals of virtualMultiEntryPlugin, made
\* anew by every call
MapScope_Module == "module"

MapScope == "call"

\* the second call: its entries and its own two Maps
OtherCall(entries) ==
    [made |-> TRUE, call |-> entries, importMap |-> EmptyMap,
     duplicatedSources |-> EmptyMap, loads |-> 0]

\* load on plugin p of the second call
LoadOther(p, id) ==
    /\ other.made
    /\ phase = "load"
    /\ ret = NoCall
    /\ other.loads < MaxOtherLoads
    /\ p \in DOMAIN virtualMultiEntryPlugin(other.call)
    /\ LET opts == processedEntries(other.call)[p]
           value == loadResult(opts, id, libCfg)
           own == MapScope = "call"
           rec == RecordSource(opts, value.v,
                               IF own THEN other.importMap ELSE importMap,
                               IF own THEN other.duplicatedSources
                               ELSE duplicatedSources)
       IN  /\ value # Null
           /\ IF own
              THEN /\ other' = [other EXCEPT !.importMap = rec[1],
                                            !.duplicatedSources = rec[2],
                                            !.loads = @ + 1]
                   /\ UNCHANGED <<importMap, duplicatedSources>>
              ELSE /\ other' = [other EXCEPT !.loads = @ + 1]
                   /\ importMap' = rec[1]
                   /\ duplicatedSources' = rec[2]
    /\ UNCHANGED <<call, enforce, libCfg, builds, phase, ret, bundle, emitted, gbDone,
                   loaded, sources, configVars>>

\* the second call is made with the same entries as the first, or with
\* two entries of its own
InitTwoCalls ==
    /\ call \in Calls
    /\ enforce = TRUE
    /\ libCfg = LibAbsent
    /\ importMap = EmptyMap
    /\ duplicatedSources = EmptyMap
    /\ bundle = EmptyMap
    /\ emitted = <<>>
    /\ gbDone = {}
    /\ loaded = <<>>
    /\ sources = <<>>
    /\ phase = "load"
    /\ builds = 1
    /\ other \in { OtherCall(call),
                    OtherCall(MapCall(<<Entry("a", <<"x.css">>, "app"),
                                        Entry("b", <<"x.css">>, "app")>>)) }
    /\ ret = NoCall
    /\ config = Undefined
    /\ config0 = Undefined
    /\ applied = <<>>

NextTwoCalls ==
    \/ Next
    \/ \E p \in 1..2, id \in IdPool : LoadOther(p, id)

SpecTwoCalls == InitTwoCalls /\ [][NextTwoCalls]_vars

(***************************************************************************)
(* The config phase: the pipeline hands one configuration object to the    *)
(* config hook of every plugin of the call                                 *)
(***************************************************************************)
InputMaps ==
    { EmptyMap, [k \in {"existing"} |-> "existing-entry.js"],
      [k \in {"existing", "a"} |-> IF k = "a" THEN "old-a.js" ELSE "existing-entry.js"] }

\* the forms of build.rollupOptions.input: absent, a mapping, a single
\* file, an array of files
Inputs ==
    {Undefined} \cup {InputObj(m) : m \in InputMaps}
    \cup {Str("index.html"), InputArray(<<"index.html">>, EmptyMap)}

NamingValues == { Undefined, Str("[name]-[hash].js"), UserFunction }

Outputs ==
    { Undefined, OutputArray(<<OutputObj(Str("es"), Undefined, Undefined)>>) }
    \cup { OutputObj(f, e, a) : f \in {Undefined, Str("es")},
                                e \in NamingValues, a \in NamingValues }

RollupSections ==
    { Undefined }
    \cup { RollupObj(x, i, o) : x \in {Undefined, Str("vue")},
                                i \in Inputs,
                                o \in Outputs }

LibSections ==
    { Undefined, LibOptions(Str("existing-entry"), Str("MyLib"), Str("my-lib")) }

Configs ==
    { [build |-> Undefined] }
    \cup { [build |-> BuildObj(d, l, r)] : d \in {Undefined, Str("dist")},
                                           l \in LibSections, r \in RollupSections }

InitConfig ==
    /\ call \in Calls
    /\ enforce = FALSE
    /\ libCfg = LibAbsent
    /\ importMap = EmptyMap
    /\ duplicatedSources = EmptyMap
    /\ bundle = EmptyMap
    /\ emitted = <<>>
    /\ gbDone = {}
    /\ loaded = <<>>
    /\ sources = <<>>
    /\ phase = "config"
    /\ builds = 1
    /\ other = NoOther
    /\ ret = NoCall
    /\ config0 \in Configs
    /\ config = config0
    /\ applied = <<>>

\* the config hook of plugin p; a hook that throws ends the config phase
ConfigHook(p) ==
    /\ phase = "config"
    /\ \A i \in 1..Len(applied) : applied[i] # p
    /\ ~(ret # NoCall /\ ret.threw)
    /\ IF configThrows(options(p), config)
       THEN /\ config' = config
            /\ ret' = [hook |-> "config", p |-> p, id |-> "", value |-> Undefined,
                       threw |-> TRUE]
       ELSE /\ config' = configHook(options(p), config)
            /\ ret' = [hook |-> "config", p |-> p, id |-> "",
                       value |-> configHook(options(p), config), threw |-> FALSE]
    /\ applied' = Append(applied, p)
    /\ UNCHANGED <<call, enforce, libCfg, builds, other, phase, buildVars, config0>>

NextConfig == \E p \in Plugins : ConfigHook(p)

SpecConfig == InitConfig /\ [][NextConfig]_vars

(***************************************************************************)
(* Properties                                                              *)
(***************************************************************************)
\* what the last hook call was made on
RetOpts == options(ret.p)
IsCall(hook) == ret # NoCall /\ ret.hook = hook

HeaderLine(name) == "// Virtual multi-entry plugin for " \o name
ImportLine(file) == "import \"" \o file \o "\";"
ExportLine(file) ==
    "export * as " \o Sanitize(basename(file, extname(file)))
                   \o " from \"" \o file \o "\";"
LinesOf(files, Line(_)) == [i \in 1..Len(files) |-> Line(files[i])]

\* the library section declares a non-empty name
HasLibName(lib) ==
    \/ lib.t = "string" /\ lib.v # ""
    \/ lib.t = "object" /\ lib.name.t = "string" /\ lib.name.v # ""

\* the library name the section declares
DeclaredLibName(lib) == IF lib.t = "string" THEN lib.v ELSE lib.name.v

\* the emitFile calls of plugin p's generateBundle
EmitsBy(p) ==
    LET mine == SelectSeq(emitted, LAMBDA e : e.by = p)
    IN  [i \in 1..Len(mine) |-> mine[i].file]

Content(desc) == IF desc.type = "asset" THEN desc.source ELSE desc.code

IsEmitted(fileName) == \E i \in 1..Len(emitted) : emitted[i].file.fileName = fileName

\* entries i and j of the call are style-only and generate the same source
SameSource(i, j) ==
    /\ i # j
    /\ isCssOnly(options(i)) /\ isCssOnly(options(j))
    /\ importer(options(i), libCfg) = importer(options(j), libCfg)

\* C1: two style-only entries A and B of one call with enforce set and
\* byte-identical sources, loaded A then B, with A.css but not B.css in the
\* bundle map: a run of generateBundle emits exactly one asset, named B.css,
\* whose content is that of A.css.
C1_EmitsExactlyOneCopy ==
    \A i, j \in Plugins :
        ( /\ phase = "generate" /\ enforce
          /\ SameSource(i, j)
          /\ loaded = <<options(i).name, options(j).name>>
          /\ buildFileName(options(i).name, TRUE) \in DOMAIN bundle
          /\ buildFileName(options(j).name, TRUE) \notin DOMAIN bundle )
        => \A p \in gbDone :
              /\ Len(EmitsBy(p)) = 1
              /\ EmitsBy(p)[1].fileName = buildFileName(options(j).name, TRUE)
              /\ EmitsBy(p)[1].source
                   = Content(bundle[buildFileName(options(i).name, TRUE)])

\* C2: with enforce set, after every entry was loaded and generateBundle ran
\* for every plugin, every style-only entry whose file, or the file of a
\* style-only entry listing the same files, is in the bundle map has its
\* own <name>.css in the bundle map or emitted.
C2_EveryCssEntryHasOutput ==
    ( /\ phase = "generate" /\ enforce /\ gbDone = Plugins
      /\ \A i \in Plugins : \E k \in 1..Len(loaded) : loaded[k] = options(i).name )
    => \A i \in Plugins :
          ( /\ isCssOnly(options(i))
            /\ \E j \in Plugins :
                  /\ isCssOnly(options(j))
                  /\ options(j).files = options(i).files
                  /\ buildFileName(options(j).name, TRUE) \in DOMAIN bundle )
          => \/ buildFileName(options(i).name, TRUE) \in DOMAIN bundle
             \/ IsEmitted(buildFileName(options(i).name, TRUE))

\* C3 as stated: load of a Library entry returns the header line, one export
\* line per file and, iff a library name is declared, the default-export
\* line, newline-joined and nothing else, for every file list.
C3_LibrarySourceIsItsLines ==
    (IsCall("load") /\ RetOpts.type = "lib" /\ ret.id = virtualResolvedEntryId(RetOpts))
    => ret.value = Str(HeaderLine(RetOpts.name) \o "\n"
                         \o JoinLines(LinesOf(RetOpts.files, ExportLine)
                              \o (IF HasLibName(libCfg)
                                  THEN <<"export default " \o DeclaredLibName(libCfg) \o ";">>
                                  ELSE <<>>)))

\* C3 amended: load of a Library entry returns the header line and a newline,
\* the export lines (one per file, in order) newline-joined, and, iff a
\* library name is declared, a newline and the default-export line; with an
\* empty file list and a declared name an empty line therefore separates the
\* header from the default-export line.
C3_LibrarySource ==
    (IsCall("load") /\ RetOpts.type = "lib" /\ ret.id = virtualResolvedEntryId(RetOpts))
    => ret.value = Str(HeaderLine(RetOpts.name) \o "\n"
                         \o JoinLines(LinesOf(RetOpts.files, ExportLine))
                         \o (IF HasLibName(libCfg)
                             THEN "\nexport default " \o DeclaredLibName(libCfg) \o ";"
                             ELSE ""))

C3_Witness ==
    /\ IsCall("load") /\ RetOpts.type = "lib" /\ ret.value # Null
    /\ RetOpts.files = <<>> /\ HasLibName(libCfg)

\* C4: load of an Application entry returns the header line followed by one
\* import line per file in order, newline-joined, and no default export,
\* whatever the library section holds.
C4_ApplicationSource ==
    (IsCall("load") /\ RetOpts.type # "lib" /\ ret.id = virtualResolvedEntryId(RetOpts))
    => /\ ret.value = Str(HeaderLine(RetOpts.name) \o "\n"
                            \o JoinLines(LinesOf(RetOpts.files, ImportLine)))
       /\ ~Includes(ret.value.v, "export default")

C4_Witness ==
    /\ IsCall("load") /\ RetOpts.type = "app" /\ ret.value # Null
    /\ Len(RetOpts.files) = 2 /\ HasLibName(libCfg)

C6_ResolveExactAndUnrelated ==
    IsCall("resolveId")
    => /\ ret.id = wrapInVirtualEntry(RetOpts.name)
          => ret.value = Str(NUL \o wrapInVirtualEntry(RetOpts.name))
       /\ ~EndsWith(ret.id, wrapInVirtualEntry(RetOpts.name))
          => ret.value = Null

C6_Witness ==
    /\ IsCall("resolveId") /\ RetOpts.type = "lib"
    /\ ret.id = "x/" \o wrapInVirtualEntry(RetOpts.name) \o "/y"
    /\ ret.value = Null

(***************************************************************************)
(* Properties of config                                                    *)
(***************************************************************************)
\* the sections of the configuration the caller built
Build0 == config0.build
Rollup0 == IF IsObject(Build0) THEN Build0.rollupOptions ELSE Undefined
Input0 == IF IsObject(Rollup0) THEN Rollup0.input ELSE Undefined
Output0 == IF IsObject(Rollup0) THEN Rollup0.output ELSE Undefined
InputMap0 == IF IsObject(Input0) THEN Input0.map ELSE EmptyMap

\* the sections of the configuration after the config hooks that ran
FinalInput == config.build.rollupOptions.input
FinalOutput == config.build.rollupOptions.output

\* what the naming value the caller had set answers, or the default pattern
PriorNaming(old, info, default) ==
    IF IsFunction(old) THEN UserNaming(info)
    ELSE IF old.t = "string" /\ old.v # "" THEN old.v
    ELSE default

\* the chunks and assets the pipeline asks names for
ChunkInfos ==
    { [name |-> "main", facadeModuleId |-> f] :
        f \in {Null, Str("other-entry")}
              \cup { Str(NUL \o "virtual:" \o options(p).name) : p \in Plugins } }

AssetInfos ==
    { [name |-> "style", originalFileNames |-> o, source |-> src] :
        o \in {<<>>, <<"other-file.css">>}
              \cup UNION { { <<"virtual:" \o options(p).name>>,
                             <<"other-file.css", "virtual:" \o options(p).name>> }
                           : p \in Plugins },
        src \in {"", "/* CSS content */"} }

\* C7: after config ran for a Library entry on a configuration whose output
\* is not an array, output.entryFileNames is a function that names the
\* entry's chunk <name>.js and answers for every other chunk what the prior
\* function or pattern, or the default pattern, answers.
C7_LibraryChunkNaming ==
    \A p \in Plugins :
        (applied = <<p>> /\ options(p).type = "lib" /\ Output0.t # "array")
        => /\ IsObject(FinalOutput)
           /\ IsFunction(FinalOutput.entryFileNames)
           /\ \A c \in ChunkInfos :
                CallNaming(FinalOutput.entryFileNames, c)
                  = IF c.facadeModuleId = Str(NUL \o "virtual:" \o options(p).name)
                    THEN options(p).name \o ".js"
                    ELSE PriorNaming(IF IsObject(Output0) THEN Output0.entryFileNames
                                     ELSE Undefined,
                                     c, "[name].[hash].chunk.js")

\* C8: after config ran for an Application entry on a configuration whose
\* output is not an array, output.assetFileNames is a function that answers
\* <name>.css iff the asset's first original file name is virtual:<name>,
\* every file of the entry ends with .css and the source is non-empty, and
\* otherwise what the prior function or pattern, or the default, answers.
C8_ApplicationAssetNaming ==
    \A p \in Plugins :
        (applied = <<p>> /\ options(p).type # "lib" /\ Output0.t # "array")
        => /\ IsObject(FinalOutput)
           /\ IsFunction(FinalOutput.assetFileNames)
           /\ \A a \in AssetInfos :
                CallNaming(FinalOutput.assetFileNames, a)
                  = IF /\ a.originalFileNames # <<>>
                       /\ a.originalFileNames[1] = "virtual:" \o options(p).name
                       /\ \A i \in 1..Len(options(p).files) :
                              EndsWith(options(p).files[i], ".css")
                       /\ a.source # ""
                    THEN options(p).name \o ".css"
                    ELSE PriorNaming(IF IsObject(Output0) THEN Output0.assetFileNames
                                     ELSE Undefined,
                                     a, "[name].[extname]")

\* both entries' keys are in the input mapping, each mapped to its virtual id
BothKeysIn(p, q) ==
    /\ IsObject(FinalInput)
    /\ \A r \in {p, q} :
          /\ options(r).name \in DOMAIN FinalInput.map
          /\ FinalInput.map[options(r).name] = "virtual:" \o options(r).name

\* C9 as stated: after config ran for two different entries, in either
\* order, the input mapping holds both entries' keys and every pre-existing
\* key with its original value.
C9_InputKeepsEveryKey ==
    \A p, q \in Plugins :
        (applied = <<p, q>> /\ Input0.t \in {"undefined", "object"})
        => /\ BothKeysIn(p, q)
           /\ \A k \in DOMAIN InputMap0 :
                 k \in DOMAIN FinalInput.map /\ FinalInput.map[k] = InputMap0[k]

\* C9 amended: after config ran for two different entries, in either order,
\* the input mapping holds both entries' keys and every pre-existing key
\* other than the two entries' own names with its original value.
C9_InputKeepsOtherKeys ==
    \A p, q \in Plugins :
        (applied = <<p, q>> /\ Input0.t \in {"undefined", "object"})
        => /\ BothKeysIn(p, q)
           /\ \A k \in DOMAIN InputMap0 \ {options(p).name, options(q).name} :
                 k \in DOMAIN FinalInput.map /\ FinalInput.map[k] = InputMap0[k]

C9_Witness ==
    /\ Len(applied) = 2
    /\ "existing" \in DOMAIN InputMap0
    /\ options(applied[2]).name \in DOMAIN InputMap0
    /\ FinalInput.map["existing"] = "existing-entry.js"

\* C10: config keeps every pre-existing field of build, build.rollupOptions
\* and build.rollupOptions.output that the entry does not set, also when
\* build.rollupOptions.input was absent before the call.
C10_KeepsForeignFields ==
    \A p \in Plugins :
        applied = <<p>>
        => /\ IsObject(Build0)
              => /\ config.build.outDir = Build0.outDir
                 /\ options(p).type # "lib" => config.build.lib = Build0.lib
                 /\ (options(p).type = "lib" /\ IsObject(Build0.lib))
                    => config.build.lib.fileName = Build0.lib.fileName
           /\ IsObject(Rollup0)
              => config.build.rollupOptions.external = Rollup0.external
           /\ \A k \in DOMAIN InputMap0 \ {options(p).name} :
                 k \in DOMAIN FinalInput.map /\ FinalInput.map[k] = InputMap0[k]
           /\ Output0.t = "array" => FinalOutput = Output0
           /\ IsObject(Output0)
              => /\ IsObject(FinalOutput)
                 /\ FinalOutput.format = Output0.format
                 /\ options(p).type = "lib"
                    => FinalOutput.assetFileNames = Output0.assetFileNames
                 /\ options(p).type # "lib"
                    => FinalOutput.entryFileNames = Output0.entryFileNames

\* the library section of the configuration before the configuration phase
Lib0 == IF IsObject(Build0) THEN Build0.lib ELSE Undefined

\* the plugin whose config hook ran last
LastApplied == applied[Len(applied)]

C12_CallerLibraryNameKept ==
    \A p \in Plugins :
        (/\ applied = <<p>>
         /\ options(p).type = "lib"
         /\ IsObject(Lib0)
         /\ Lib0.name.t = "string"
         /\ Lib0.fileName.t = "string")
        => /\ config.build.lib.name = Lib0.name
           /\ config.build.lib.fileName = Lib0.fileName
           /\ config.build.lib.entry = Str(virtualEntryId(options(p)))

\* C13: every emitFile call of generateBundle is made with enforce set and
\* by the plugin of a style-only entry, whatever the bundle map and the
\* duplicate record hold.
C13_EmitsOnlyWhenEnforcedCssOnly ==
    \A i \in 1..Len(emitted) :
        enforce /\ isCssOnly(options(emitted[i].by))

\* a duplicate is recorded against another entry
DuplicateOfAnother(x, y) ==
    /\ x \in DOMAIN duplicatedSources
    /\ duplicatedSources[x] = y
    /\ x # y

\* generateBundle ran, with enforce set, for the plugin of an entry that is
\* not style-only, on a bundle map that holds the file of a first producer
\* and lacks the file of its recorded duplicate, and emitted nothing
C13_Witness ==
    /\ enforce
    /\ emitted = <<>>
    /\ \E p \in gbDone :
          /\ ~isCssOnly(options(p))
          /\ \E i, j \in Plugins :
                /\ DuplicateOfAnother(options(i).name, options(j).name)
                /\ buildFileName(options(j).name, FALSE) \in DOMAIN bundle
                /\ buildFileName(options(i).name, FALSE) \notin DOMAIN bundle

\* C14: when generateBundle has run once for the plugin of every entry on
\* the same bundle map, at most one emitFile call was made for any output
\* file name.
C14_OneEmitPerFileName ==
    gbDone = Plugins
    => \A i, j \in 1..Len(emitted) :
           i # j => emitted[i].file.fileName # emitted[j].file.fileName

\* C15: a load call with an id other than the resolved id of the plugin's
\* entry returns null and leaves the fingerprint map and the duplicate map
\* as they were.
C15_OtherIdsLoadNothing ==
    [][(ret'.hook = "load" /\ ret'.id # virtualResolvedEntryId(options(ret'.p)))
       => /\ ret'.value = Null
          /\ importMap' = importMap
          /\ duplicatedSources' = duplicatedSources]_vars

\* load was called with another entry's resolved id when the fingerprint map
\* already held a source, and returned null
C15_Witness ==
    /\ IsCall("load")
    /\ \E q \in Plugins \ {ret.p} : ret.id = virtualResolvedEntryId(options(q))
    /\ ret.value = Null
    /\ importMap # EmptyMap

\* C16: every load of an entry returns the same source text, whatever was
\* loaded before it and whether or not the entry is recorded as a duplicate.
C16_LoadReturnsSameText ==
    \A i, j \in 1..Len(loaded) :
        loaded[i] = loaded[j] => sources[i] = sources[j]

\* an entry recorded as the duplicate of another was loaded a second time,
\* after the load of that other entry and its own first load
C16_Witness ==
    /\ Len(loaded) = 3
    /\ loaded[2] = loaded[3]
    /\ DuplicateOfAnother(loaded[2], loaded[1])
    /\ sources[3] = sources[2]
    /\ IsCall("load")

\* C17: config returns without throwing for every configuration: an empty
\* one, one with any of the build, rollupOptions, input and output sections,
\* one whose output is an array, one whose input is a mapping, a single
\* string or an array of strings.
C17_ConfigNeverThrows ==
    IsCall("config") => ~ret.threw

\* the naming fields of an output section; an absent section or an array of
\* outputs has none
EntryFileNamesOf(output) == IF IsObject(output) THEN output.entryFileNames ELSE Undefined
AssetFileNamesOf(output) == IF IsObject(output) THEN output.assetFileNames ELSE Undefined

\* C18: after config for an Application entry build.lib and
\* output.entryFileNames are what they were before the call, and after
\* config for a Library entry output.assetFileNames is what it was.
C18_OtherKindNamingUntouched ==
    \A p \in Plugins :
        applied = <<p>>
        => IF options(p).type = "lib"
           THEN AssetFileNamesOf(FinalOutput) = AssetFileNamesOf(Output0)
           ELSE /\ config.build.lib = Lib0
                /\ EntryFileNamesOf(FinalOutput) = EntryFileNamesOf(Output0)

\* C19: the call returns one plugin for each key of a mapping of entries, in
\* the order of the keys, and exactly one plugin, for the entry named by the
\* name field, for the single-object Library form; every plugin is named
\* virtual-multi-entry-plugin and has enforce pre.
C19_OnePluginPerEntry ==
    LET plugins == virtualMultiEntryPlugin(call)
    IN  /\ \A i \in DOMAIN plugins :
              /\ plugins[i].name = "virtual-multi-entry-plugin"
              /\ plugins[i].enforce = "pre"
        /\ call.form = "map"
           => /\ Len(plugins) = Len(call.entries)
              /\ \A i \in DOMAIN plugins : plugins[i].entry = call.entries[i].name
        /\ call.form = "lib"
           => /\ Len(plugins) = 1
              /\ plugins[1].entry = call.name

\* the one plugin of a single-object Library call generated its source
C19_Witness ==
    /\ call.form = "lib"
    /\ IsCall("load")
    /\ ret.p = 1
    /\ ret.value # Null
    /\ loaded = <<call.name>>

\* the first load that returned the text of load k
FirstProducer(k) ==
    loaded[CHOOSE i \in 1..k :
               /\ sources[i] = sources[k]
               /\ \A h \in 1..(i - 1) : sources[h] # sources[k]]

\* C20: after any sequence of loads, an entry name is a key of the duplicate
\* map iff a load of it was preceded by a load that returned byte-identical
\* source, and the value stored for it is the entry that produced that
\* source first.
C20_DuplicateMapRecordsEarlierProducer ==
    \A p \in Plugins :
        LET name == options(p).name
            repeats == { k \in 1..Len(loaded) :
                            /\ loaded[k] = name
                            /\ \E i \in 1..(k - 1) : sources[i] = sources[k] }
        IN  /\ name \in DOMAIN duplicatedSources <=> repeats # {}
            /\ name \in DOMAIN duplicatedSources
               => \E k \in repeats : duplicatedSources[name] = FirstProducer(k)

\* the names of the entries of the call
EntryNames == { options(p).name : p \in Plugins }

\* emitFile call f copies the file of the entry e is a recorded duplicate of
\* into the missing file of e; asAsset: the emitted item is an asset
CopiesFirstProducer(f, e, asAsset) ==
    /\ f.fileName = e \o ".css"
    /\ f.fileName \notin DOMAIN bundle
    /\ e \in DOMAIN duplicatedSources
    /\ (duplicatedSources[e] \o ".css") \in DOMAIN bundle
    /\ asAsset => f.type = "asset"
    /\ f.name = e /\ f.id = e
    /\ f.source = Content(bundle[duplicatedSources[e] \o ".css"])

\* nothing is emitted for an entry that is not a recorded duplicate or whose
\* first producer has no file in the bundle map
NothingWithoutOriginal ==
    \A e \in EntryNames :
        (\/ e \notin DOMAIN duplicatedSources
         \/ (duplicatedSources[e] \o ".css") \notin DOMAIN bundle)
        => ~IsEmitted(e \o ".css")

\* C21: every emitFile call is made with enforce set, for the missing file
\* <e>.css of an entry e recorded as a duplicate of an entry o whose file
\* <o>.css is in the bundle map, and emits an asset named e with id e whose
\* content is the source, or the code, of <o>.css; nothing is emitted for an
\* entry that is not recorded or whose <o>.css is absent.
C21_EmitsAssetCopy ==
    /\ \A i \in 1..Len(emitted) :
          /\ enforce
          /\ \E e \in EntryNames : CopiesFirstProducer(emitted[i].file, e, TRUE)
    /\ NothingWithoutOriginal

\* C22: generateBundle of the plugin of entry E emits nothing when the
\* bundle map holds E's expected file, and whatever it emits is named as E's
\* expected file.
C22_ReconcilesOwnFileOnly ==
    \A p \in gbDone :
        LET expected == buildFileName(options(p).name, isCssOnly(options(p)))
        IN  /\ expected \in DOMAIN bundle => EmitsBy(p) = <<>>
            /\ \A i \in 1..Len(EmitsBy(p)) : EmitsBy(p)[i].fileName = expected

\* C23: when the pipeline starts another build with the same plugins, the
\* fingerprint map and the duplicate map are empty.
C23_RecordEmptyAtNextBuild ==
    [][builds' > builds
       => importMap' = EmptyMap /\ duplicatedSources' = EmptyMap]_vars

\* what a hook call on this call's plugins returns, records and emits, from
\* the state of this call alone
OwnHookEffect ==
    /\ (ret = NoCall /\ ret'.hook = "resolveId")
       => ret'.value = resolveId(options(ret'.p), ret'.id)
    /\ (ret = NoCall /\ ret'.hook = "load")
       => /\ ret'.value = loadResult(options(ret'.p), ret'.id, libCfg)
          /\ IF ret'.value = Null
             THEN importMap' = importMap /\ duplicatedSources' = duplicatedSources
             ELSE <<importMap', duplicatedSources'>>
                    = RecordSource(options(ret'.p), ret'.value.v, importMap,
                                   duplicatedSources)
    /\ (ret = NoCall /\ ret'.hook = "generateBundle")
       => emitted' = emitted \o EmitBy(ret'.p,
                                       generateBundle(call, options(ret'.p), enforce,
                                                      duplicatedSources, bundle))

C25_BundleMapReadOnly ==
    [][(ret = NoCall /\ ret'.hook = "generateBundle")
       => /\ bundle' = bundle
          /\ ret'.value = Undefined
          /\ importMap' = importMap
          /\ duplicatedSources' = duplicatedSources]_vars

\* generateBundle emitted a file, and the bundle map still lacks that file
\* and holds the file it was copied from
C25_Witness ==
    /\ IsCall("generateBundle")
    /\ EmitsBy(ret.p) # <<>>
    /\ EmitsBy(ret.p)[1].fileName \notin DOMAIN bundle
    /\ bundle # EmptyMap

\* input[name] of a mapping, or of an array with named properties
InputValue(input, name) ==
    IF IsObject(input) /\ name \in DOMAIN input.map THEN Str(input.map[name])
    ELSE IF input.t = "array" /\ name \in DOMAIN input.props THEN Str(input.props[name])
    ELSE Undefined

\* the config hook of the k-th applied plugin returned
Returned(k) == ~(k = Len(applied) /\ ret.threw)

\* C26: for every entry whose config hook returned, input[name] is
\* virtual:<name> and stays so while other entries are configured; right
\* after config for a Library entry build.lib.entry is that value and the
\* installed entryFileNames compares with NUL virtual:<name>; the entry's
\* resolveId maps the value to NUL virtual:<name>, and the entry's load
\* returns source for that id and no other.
C26_OneIdentifierAcrossHooks ==
    \A k \in 1..Len(applied) :
        LET opts == options(applied[k])
            id == "virtual:" \o opts.name
            last == k = Len(applied)
        IN  Returned(k)
            => /\ InputValue(FinalInput, opts.name) = Str(id)
               /\ (opts.type = "lib" /\ last) => config.build.lib.entry = Str(id)
               /\ resolveId(opts, id) = Str(NUL \o id)
               /\ \A i \in IdPool :
                     loadResult(opts, i, libCfg) # Null <=> i = NUL \o id
               /\ (opts.type = "lib" /\ last /\ IsObject(FinalOutput))
                  => /\ IsFunction(FinalOutput.entryFileNames)
                     /\ FinalOutput.entryFileNames.virtualResolvedEntryId = NUL \o id
                     /\ \A c \in ChunkInfos :
                           c.facadeModuleId = Str(NUL \o id)
                           => CallNaming(FinalOutput.entryFileNames, c) = opts.name \o ".js"

\* config ran for an Application entry and then for a Library entry, on a
\* configuration with an output section
C26_Witness ==
    /\ Len(applied) = 2
    /\ options(applied[1]).type # "lib"
    /\ options(applied[2]).type = "lib"
    /\ ~ret.threw
    /\ IsObject(FinalOutput)
    /\ InputValue(FinalInput, options(applied[1]).name)
         = Str("virtual:" \o options(applied[1]).name)
    /\ config.build.lib.entry = Str("virtual:" \o options(applied[2]).name)

\* the file's base name: directory and final extension stripped
BaseName(file) == basename(file, extname(file))

\* the length of the export statement of a file whose binding is as long
\* as its base name
ExportLength(file) ==
    Len("export * as ") + Len(BaseName(file)) + Len(" from \"") + Len(file) + Len("\";")

\* where the statement of the i-th file starts in the generated source
RECURSIVE StatementStart(_, _)
StatementStart(opts, i) ==
    IF i = 1 THEN Len(header(opts))
    ELSE StatementStart(opts, i - 1) + ExportLength(opts.files[i - 1]) + 1

\* C27: in the source load returns for a Library entry, the statement of
\* every file is `export * as B from "<file>";` where B is as long as the
\* file's base name, has at every place the character of the base name if
\* that is one of [A-Za-z0-9_] and `_` otherwise, and <file> is the file
\* string as given.
C27_BindingIsSanitizedBaseName ==
    (IsCall("load") /\ ret.value # Null /\ RetOpts.type = "lib")
    => \A i \in 1..Len(RetOpts.files) :
          LET file == RetOpts.files[i]
              base == BaseName(file)
              from == StatementStart(RetOpts, i)
              statement == SubSeq(ret.value.v, from + 1, from + ExportLength(file))
              binding == SubSeq(statement, 13, 12 + Len(base))
          IN  /\ SubSeq(statement, 1, 12) = "export * as "
              /\ Len(binding) = Len(base)
              /\ \A c \in 1..Len(base) :
                    /\ IsWordChar(CharAt(binding, c))
                    /\ CharAt(binding, c)
                         = IF IsWordChar(CharAt(base, c)) THEN CharAt(base, c) ELSE "_"
              /\ SubSeq(statement, 13 + Len(base), Len(statement))
                   = " from \"" \o file \o "\";"

\* load returned the source of a Library entry with a file whose base name
\* has a run of characters outside the set and one inside it
C27_Witness ==
    /\ IsCall("load")
    /\ ret.value # Null
    /\ RetOpts.type = "lib"
    /\ \E i \in 1..Len(RetOpts.files) : BaseName(RetOpts.files[i]) = "f@#.v2"
    /\ Includes(ret.value.v, "export * as f___v2 from \"f@#.v2.js\";")

\* no entry name of the call holds a line break
NamesWithoutLineBreak == \A p \in Plugins : ~Includes(options(p).name, "\n")

OnlyOwnerAnswers ==
    /\ (IsCall("resolveId") /\ ret.value # Null)
       => \A q \in Plugins \ {ret.p} : resolveId(options(q), ret.id) = Null
    /\ (IsCall("load") /\ ret.value # Null)
       => \A q \in Plugins \ {ret.p} : loadResult(options(q), ret.id, libCfg) = Null

\* C29 as stated: for the plugins of one call and any id, at most one
\* plugin's resolveId and at most one plugin's load return a non-null
\* result.
C29_AtMostOneOwner == OnlyOwnerAnswers

\* no entry's virtual id ends with the virtual id of another, Library, entry
NoSuffixOverlap ==
    \A p, q \in Plugins :
        (p # q /\ options(p).type = "lib")
        => ~EndsWith(virtualEntryId(options(q)), virtualEntryId(options(p)))

\* C29 amended: the same, for calls in which no entry's virtual id ends
\* with the virtual id of another entry that is a Library entry.
C29_AtMostOneOwnerWithoutOverlap == NoSuffixOverlap => OnlyOwnerAnswers

\* in a call of two entries the Library entry's resolveId answered an id
\* that ends with its virtual id, and the other plugin does not answer it
C29_Witness ==
    /\ IsCall("resolveId")
    /\ ret.value # Null
    /\ NoSuffixOverlap
    /\ RetOpts.type = "lib"
    /\ ret.id # virtualEntryId(RetOpts)
    /\ \E q \in Plugins \ {ret.p} : resolveId(options(q), ret.id) = Null

\* the asset is the non-empty asset of style-only Application entry p
AssetOf(a, p) ==
    /\ isCssOnly(options(p))
    /\ a.source # ""
    /\ a.originalFileNames # <<>>
    /\ a.originalFileNames[1] = "virtual:" \o options(p).name

\* the asset comes from no entry of the call
ForeignAsset(a) ==
    \A p \in Plugins :
        \A i \in 1..Len(a.originalFileNames) :
            a.originalFileNames[i] # "virtual:" \o options(p).name

\* C30: after config ran once for every entry of a call of several
\* Application entries, in any order, on a configuration whose output is
\* not an array, the final assetFileNames answers <n>.css for the non-empty
\* asset whose first original file name is virtual:<n>, for every
\* style-only entry n, and answers for an asset of none of the entries what
\* the caller's function or pattern, or [name].[extname], answers.
C30_OverridesComposeInAnyOrder ==
    (/\ Len(applied) = Cardinality(Plugins)
     /\ Len(applied) > 1
     /\ \A p \in Plugins : options(p).type # "lib"
     /\ ~ret.threw
     /\ Output0.t # "array")
    => /\ IsObject(FinalOutput)
       /\ IsFunction(FinalOutput.assetFileNames)
       /\ \A a \in AssetInfos :
             /\ \A p \in Plugins :
                   AssetOf(a, p)
                   => CallNaming(FinalOutput.assetFileNames, a) = options(p).name \o ".css"
             /\ ForeignAsset(a)
                => CallNaming(FinalOutput.assetFileNames, a)
                     = PriorNaming(AssetFileNamesOf(Output0), a, "[name].[extname]")

====
